---- MODULE Spec2Model ----
(***************************************************************************)
(* Storage utilities of the lasso application.                             *)
(*                                                                         *)
(*  - uploadFileToIPFS, in its three source variants:                      *)
(*      "timeout"  : fallback with a 3 second race and a skipLighthouse    *)
(*                   flag,                                                 *)
(*      "fallback" : fallback without a timer,                             *)
(*      "basic"    : no fallback (src/utils/storage.ts);                   *)
(*  - getStorageProvider / setStorageProvider over the                     *)
(*    organization_admins table.                                           *)
(*                                                                         *)
(* An async function runs to its next await in one step (JavaScript runs   *)
(* a continuation to completion); adapters and the timer settle as         *)
(* separate steps, in any order.                                           *)
(***************************************************************************)
EXTENDS Integers, Sequences, FiniteSets, TLC

\* ------------------------------------------------------------------ sets
\* calls of uploadFileToIPFS that can be in flight together
NumCalls == 2

Calls == 1 .. NumCalls

Variants == {"timeout", "fallback", "basic"}

\* values a caller can pass as provider: the two of the StorageProvider
\* type, and any other string that a row's storage_provider can hold
Providers == {"pinata", "lighthouse", "other"}

\* how an adapter promise settles: a success result, a failure result, or
\* a rejection.  uploadFileToLighthouse of lighthouse.ts catches its own
\* errors; the rejection is kept for both adapters because every variant
\* of uploadFileToIPFS has a catch clause for it.
Settlements == {"ok", "fail", "threw"}

NoCid == "none"
LighthouseCid == "cidL"
PinataCid == "cidP"

\* the synthetic identifier of the mock path of uploadFileToLighthouse
MockCid == "bafkreib-mock"

\* the delay of the mock path and the timeout of the race, in milliseconds
MockDelayMs == 1500

TimeoutMs == 3000

\* ------------------------------------------------------------ variables
VARIABLES
    variant,          \* which source variant of uploadFileToIPFS is loaded
    apiKey,           \* whether VITE_LIGHTHOUSE_API_KEY is configured
    pc,               \* per call: position of uploadFileToIPFS
    provider,         \* per call: the provider argument
    skipLighthouse,   \* per call: the skipLighthouse argument
    fallbackUsed,     \* per call: the local fallbackUsed
    actualProvider,   \* per call: the local actualProvider
    lh,               \* per call: the promise of uploadFileToLighthouse
    lhCalls,          \* per call: invocations of uploadFileToLighthouse
    pin,              \* per call: the promise of the latest pinFileToIPFS
    pinCalls,         \* per call: invocations of pinFileToIPFS
    pinLog,           \* per call: how its pinFileToIPFS invocations settled
    timer,            \* per call: the setTimeout of the race
    raceWinner,       \* per call: what settled Promise.race first
    outcome,          \* per call: how the returned promise settled
    rows,             \* organization_admins: wallet addresses with a row
    storage_provider, \* organization_admins: the storage_provider column
    lastGet,          \* the latest getStorageProvider call and its result
    lastSet,          \* the latest setStorageProvider call and its result
    intact,           \* per key: value of a successful set not yet overwritten
    full_name,        \* organization_admins: the full_name column
    email,            \* organization_admins: the email column
    subscription_plan,\* organization_admins: the subscription_plan column
    session,          \* the authentication session of the browser
    fetch,            \* the fetchAdminInfo call: position, locals, result
    upd,              \* the updateAdminInfo call: position, locals, result
    cp,               \* ChangePassword: its state, its calls and its timers
    activeAddress,    \* useWallet(): the address of the connected wallet
    us,               \* UserSettings: its state and its save handler
    fetches,          \* UserSettings: the fetchAdminInfo call of each effect
    spt               \* StorageProviderTest: its state and its handlers

uploadVars == <<variant, apiKey, pc, provider, skipLighthouse, fallbackUsed,
                actualProvider, lh, lhCalls, pin, pinCalls, pinLog, timer,
                raceWinner, outcome>>

storeVars == <<rows, storage_provider, lastGet, lastSet, intact>>

tableVars == <<full_name, email, subscription_plan>>

adminVars == <<tableVars, session, fetch, upd>>

\* the state of the three components and of the wallet hook they use
uiVars == <<cp, activeAddress, us, fetches, spt>>

vars == <<uploadVars, storeVars, adminVars, uiVars>>

\* ------------------------------------------------- adapter result values
\* the { success, cid?, message? } object of an adapter
AdapterResult(who, s) ==
    IF s = "ok"
    THEN [success |-> TRUE,  cid |-> IF who = "lighthouse" THEN LighthouseCid
                                                          ELSE PinataCid]
    ELSE IF s = "mocked"
    THEN [success |-> TRUE,  cid |-> MockCid]
    ELSE [success |-> FALSE, cid |-> NoCid]

\* what an awaiting continuation receives: a value or a thrown error
Event(who, s) ==
    IF s = "threw"
    THEN [kind |-> "throw", success |-> FALSE, cid |-> NoCid]
    ELSE [kind |-> "value", success |-> AdapterResult(who, s).success,
          cid |-> AdapterResult(who, s).cid]

\* the timeout branch of the race: the rejection of timeoutPromise is
\* caught and turned into a failure result
TimeoutBranch ==
    [kind |-> "value", success |-> FALSE, cid |-> NoCid]

NoOutcome ==
    [status |-> "pending", success |-> FALSE, cid |-> NoCid,
     provider |-> "none", fallbackUsed |-> FALSE, hasFallbackUsed |-> FALSE]

\* ------------------------------------------------------ uploadFileToIPFS
\* the await positions, named by variant and source line
\* mutant: the call still listens to Lighthouse while it awaits the
\* fallback call
AwaitLighthouse_Stale == {"t121", "f95", "b91", "t134"}

AwaitLighthouse == {"t121", "f95", "b91"}

AwaitPinata == {"t99", "t134", "t141", "t147", "f100", "f105", "f109", "b94"}

\* mutant: the function body has no outer try/catch
CatchTarget_NoOuter(at) ==
    CASE at \in {"t121", "t134"} -> "inner"
      [] at \in {"f95", "f100"}  -> "inner"
      [] OTHER                   -> "none"

\* the catch clause that receives an error thrown at an await position:
\* "inner" is the catch around the Lighthouse attempt, "outer" is the catch
\* of the whole function body, "none" would let the error escape
CatchTarget(at) ==
    CASE at \in {"t121", "t134"} -> "inner"
      [] at \in {"f95", "f100"}  -> "inner"
      [] OTHER                   -> "outer"

\* the awaits inside the inner catch clause, which call pinFileToIPFS again
InnerCatchAwait(at) ==
    IF at \in {"t121", "t134"} THEN "t141" ELSE "f105"

\* the await of the fallback call after a Lighthouse failure result
FallbackAwait(at) ==
    IF at = "t121" THEN "t134" ELSE "f100"

\* mutant: the fallback variant has the branches of its ternary swapped
ReturnedProvider_Swapped(c, at, fb, ap) ==
    CASE at = "t99"                       -> "pinata"
      [] at \in {"t121", "t134", "t141", "t147"} -> ap
      [] at \in {"f95", "f100", "f105", "f109"}  ->
            IF fb THEN provider[c] ELSE "pinata"
      [] OTHER                            -> provider[c]

\* the provider named by the normal return statement
ReturnedProvider(c, at, fb, ap) ==
    CASE at = "t99"                       -> "pinata"
      [] at \in {"t121", "t134", "t141", "t147"} -> ap
      [] at \in {"f95", "f100", "f105", "f109"}  ->
            IF fb THEN "pinata" ELSE provider[c]
      [] OTHER                            -> provider[c]

\* mutant: the skipLighthouse shortcut returns the local flag
ReturnedFallbackUsed_Local(at, fb) == fb

\* the fallbackUsed named by the normal return statement
ReturnedFallbackUsed(at, fb) ==
    IF at = "t99" THEN TRUE ELSE fb

\* the basic variant has no fallbackUsed field in its outcome
HasFallbackUsed == variant # "basic"

\* return { ...result, provider, fallbackUsed }
ReturnOutcome(c, at, ev, fb, ap) ==
    [status |-> "resolved", success |-> ev.success, cid |-> ev.cid,
     provider |-> ReturnedProvider(c, at, fb, ap),
     fallbackUsed |-> HasFallbackUsed /\ ReturnedFallbackUsed(at, fb),
     hasFallbackUsed |-> HasFallbackUsed]

\* mutant: the outer catch reports a fallback
OuterCatchOutcome_Fallback(c) ==
    [status |-> "resolved", success |-> FALSE, cid |-> NoCid,
     provider |-> provider[c], fallbackUsed |-> variant # "basic",
     hasFallbackUsed |-> variant # "basic"]

\* the return of the outer catch clause
OuterCatchOutcome(c) ==
    [status |-> "resolved", success |-> FALSE, cid |-> NoCid,
     provider |-> provider[c], fallbackUsed |-> FALSE,
     hasFallbackUsed |-> HasFallbackUsed]

\* an error that no catch clause receives rejects the returned promise
RejectedOutcome ==
    [status |-> "rejected", success |-> FALSE, cid |-> NoCid,
     provider |-> "none", fallbackUsed |-> FALSE, hasFallbackUsed |-> FALSE]

\* mutant: the fallback does not look at the success flag
NeedsFallback_Always(at, ev) ==
    at \in {"t121", "f95"}

\* does a Lighthouse result at this await trigger the fallback
NeedsFallback(at, ev) ==
    at \in {"t121", "f95"} /\ ~ev.success

\* a call returns: the locals keep their values, the promise settles
Finish(c, o, fb, ap, pinNow) ==
    /\ pc' = [pc EXCEPT ![c] = "done"]
    /\ outcome' = [outcome EXCEPT ![c] = o]
    /\ fallbackUsed' = [fallbackUsed EXCEPT ![c] = fb]
    /\ actualProvider' = [actualProvider EXCEPT ![c] = ap]
    /\ pin' = [pin EXCEPT ![c] = pinNow]
    /\ UNCHANGED pinCalls

\* a call invokes pinFileToIPFS and awaits it at position next
CallPinata(c, next, fb, ap) ==
    /\ pc' = [pc EXCEPT ![c] = next]
    /\ pin' = [pin EXCEPT ![c] = "pending"]
    /\ pinCalls' = [pinCalls EXCEPT ![c] = @ + 1]
    /\ fallbackUsed' = [fallbackUsed EXCEPT ![c] = fb]
    /\ actualProvider' = [actualProvider EXCEPT ![c] = ap]
    /\ UNCHANGED outcome

\* mutant: fallbackUsed and actualProvider are read from one slot that all
\* calls share, as if they were declared outside the function
Resume_SharedLocals(c, ev, pinNow) ==
    LET at == pc[c]
        fb == fallbackUsed[1]
        ap == actualProvider[1]
    IN  IF ev.kind = "throw"
        THEN CASE CatchTarget(at) = "inner" ->
                    CallPinata(c, InnerCatchAwait(at), TRUE, "pinata")
               [] CatchTarget(at) = "outer" ->
                    Finish(c, OuterCatchOutcome(c), fb, ap, pinNow)
               [] OTHER ->
                    Finish(c, RejectedOutcome, fb, ap, pinNow)
        ELSE IF NeedsFallback(at, ev)
             THEN CallPinata(c, FallbackAwait(at), TRUE, "pinata")
             ELSE Finish(c, ReturnOutcome(c, at, ev, fb, ap), fb, ap, pinNow)

\* the continuation of uploadFileToIPFS after the await at pc[c] receives
\* ev, up to its next await or its return; pinNow is the state of the
\* Pinata promise when the continuation starts
Resume(c, ev, pinNow) ==
    LET at == pc[c]
        fb == fallbackUsed[c]
        ap == actualProvider[c]
    IN  IF ev.kind = "throw"
        THEN CASE CatchTarget(at) = "inner" ->
                    CallPinata(c, InnerCatchAwait(at), TRUE, "pinata")
               [] CatchTarget(at) = "outer" ->
                    Finish(c, OuterCatchOutcome(c), fb, ap, pinNow)
               [] OTHER ->
                    Finish(c, RejectedOutcome, fb, ap, pinNow)
        ELSE IF NeedsFallback(at, ev)
             THEN CallPinata(c, FallbackAwait(at), TRUE, "pinata")
             ELSE Finish(c, ReturnOutcome(c, at, ev, fb, ap), fb, ap, pinNow)

\* the call of uploadFileToIPFS(file, p, s), up to its first await
uploadFileToIPFS(c, p, s) ==
    /\ pc[c] = "idle"
    /\ variant = "timeout" \/ s = FALSE
    /\ provider' = [provider EXCEPT ![c] = p]
    /\ skipLighthouse' = [skipLighthouse EXCEPT ![c] = s]
    /\ IF variant = "timeout" /\ p = "lighthouse" /\ s
       THEN /\ CallPinata(c, "t99", FALSE, "pinata")
            /\ UNCHANGED <<lh, lhCalls, timer>>
       ELSE IF p = "lighthouse"
       THEN /\ pc' = [pc EXCEPT ![c] =
                        CASE variant = "timeout"  -> "t121"
                          [] variant = "fallback" -> "f95"
                          [] OTHER                -> "b91"]
            /\ lh' = [lh EXCEPT ![c] = IF apiKey THEN "pending" ELSE "mock"]
            /\ lhCalls' = [lhCalls EXCEPT ![c] = @ + 1]
            /\ timer' = [timer EXCEPT ![c] =
                           IF variant = "timeout" THEN "armed" ELSE @]
            /\ fallbackUsed' = [fallbackUsed EXCEPT ![c] = FALSE]
            /\ actualProvider' = [actualProvider EXCEPT ![c] = p]
            /\ UNCHANGED <<pin, pinCalls, outcome>>
       ELSE /\ CallPinata(c, CASE variant = "timeout"  -> "t147"
                               [] variant = "fallback" -> "f109"
                               [] OTHER                -> "b94",
                          FALSE, p)
            /\ UNCHANGED <<lh, lhCalls, timer>>
    /\ UNCHANGED <<variant, apiKey, raceWinner, pinLog, storeVars, adminVars, uiVars>>

\* mutant: the timeout of the race is the shorter of the two delays
MockFirst_Reversed == TimeoutMs <= MockDelayMs

\* the mock delay and the timeout are armed in the same synchronous run,
\* the mock delay first; timers fire in the order of their deadlines, and in
\* the order they were armed when the deadlines are equal
MockFirst == MockDelayMs <= TimeoutMs

\* the promise of uploadFileToLighthouse settles with s; the call is resumed
\* when it still awaits it, otherwise the result is dropped
LighthouseSettled(c, s) ==
    /\ lh' = [lh EXCEPT ![c] = s]
    /\ IF pc[c] \in AwaitLighthouse
       THEN /\ Resume(c, Event("lighthouse", s), pin[c])
            /\ raceWinner' = [raceWinner EXCEPT ![c] =
                                IF pc[c] = "t121" THEN "lighthouse" ELSE @]
       ELSE UNCHANGED <<pc, outcome, fallbackUsed, actualProvider, pin,
                        pinCalls, raceWinner>>
    /\ UNCHANGED <<variant, apiKey, provider, skipLighthouse, lhCalls, timer,
                   pinLog, storeVars, adminVars, uiVars>>

\* the upload through the Lighthouse SDK settles, at any time
uploadFileToLighthouseSettles(c, s) ==
    /\ lh[c] = "pending"
    /\ LighthouseSettled(c, s)

\* the 1.5 second delay of the mock path ends and the adapter returns a
\* success result with the synthetic identifier
MockDelayElapses(c) ==
    /\ lh[c] = "mock"
    /\ timer[c] = "armed" => MockFirst
    /\ LighthouseSettled(c, "mocked")

\* the 3 second timer fires: the race settles with the timeout branch when
\* it is still pending
TimeoutFires(c) ==
    /\ timer[c] = "armed"
    /\ lh[c] = "mock" => ~MockFirst
    /\ timer' = [timer EXCEPT ![c] = "fired"]
    /\ IF pc[c] = "t121"
       THEN /\ Resume(c, TimeoutBranch, pin[c])
            /\ raceWinner' = [raceWinner EXCEPT ![c] = "timeout"]
       ELSE UNCHANGED <<pc, outcome, fallbackUsed, actualProvider, pin,
                        pinCalls, raceWinner>>
    /\ UNCHANGED <<variant, apiKey, provider, skipLighthouse, lh, lhCalls,
                   pinLog, storeVars, adminVars, uiVars>>

\* the promise of pinFileToIPFS settles and the call is resumed
pinFileToIPFSSettles(c, s) ==
    /\ pin[c] = "pending"
    /\ pc[c] \in AwaitPinata
    /\ Resume(c, Event("pinata", s), s)
    /\ pinLog' = [pinLog EXCEPT ![c] = Append(@, s)]
    /\ UNCHANGED <<variant, apiKey, provider, skipLighthouse, lh, lhCalls, timer,
                   raceWinner, storeVars, adminVars, uiVars>>

UploadInit ==
    /\ variant \in Variants
    /\ apiKey \in BOOLEAN
    /\ pc = [c \in Calls |-> "idle"]
    /\ provider = [c \in Calls |-> "pinata"]
    /\ skipLighthouse = [c \in Calls |-> FALSE]
    /\ fallbackUsed = [c \in Calls |-> FALSE]
    /\ actualProvider = [c \in Calls |-> "pinata"]
    /\ lh = [c \in Calls |-> "none"]
    /\ lhCalls = [c \in Calls |-> 0]
    /\ pin = [c \in Calls |-> "none"]
    /\ pinCalls = [c \in Calls |-> 0]
    /\ pinLog = [c \in Calls |-> <<>>]
    /\ timer = [c \in Calls |-> "none"]
    /\ raceWinner = [c \in Calls |-> "none"]
    /\ outcome = [c \in Calls |-> NoOutcome]

UploadNext ==
    \/ \E c \in Calls, p \in Providers, s \in BOOLEAN : uploadFileToIPFS(c, p, s)
    \/ \E c \in Calls, s \in Settlements : uploadFileToLighthouseSettles(c, s)
    \/ \E c \in Calls : MockDelayElapses(c)
    \/ \E c \in Calls : TimeoutFires(c)
    \/ \E c \in Calls, s \in Settlements : pinFileToIPFSSettles(c, s)

\* ------------------------------------- getStorageProvider / setStorageProvider
\* wallet addresses; "" is the empty (falsy) address
NumWallets == 1

WalletNames == <<"w1", "w2", "w3">>

Keys == {""} \cup {WalletNames[i] : i \in 1 .. NumWallets}

\* what the TEXT column storage_provider can hold
ColumnValues == {"null", "", "pinata", "lighthouse", "other"}

\* what can go wrong in a request to the record store: nothing, an error
\* reported in the error field, or a thrown error
Faults == {"none", "error", "throw"}

\* mutant: only null is taken for a missing preference
Falsy_NullOnly(v) == v = "null"

\* JavaScript falsiness of a column value
Falsy(v) == v \in {"null", ""}

\* .select('storage_provider').eq('wallet_address', key).single():
\* the row's data, or an error when there is no row
Single(key, fault) ==
    IF fault = "error" \/ key \notin rows
    THEN [data |-> "nodata", error |-> TRUE]
    ELSE [data |-> storage_provider[key], error |-> FALSE]

\* the value getStorageProvider(key) returns
GetResult(key, fault) ==
    IF key = ""
    THEN [status |-> "returned", value |-> "pinata"]
    ELSE IF fault = "throw"
    THEN [status |-> "returned", value |-> "pinata"]
    ELSE LET r == Single(key, fault)
         IN  IF r.error \/ r.data = "nodata" \/ Falsy(r.data)
             THEN [status |-> "returned", value |-> "pinata"]
             ELSE [status |-> "returned", value |-> r.data]

getStorageProvider(key, fault) ==
    /\ lastGet' = [key |-> key, fault |-> fault,
                   status |-> GetResult(key, fault).status,
                   value |-> GetResult(key, fault).value,
                   row |-> IF key \in rows THEN storage_provider[key]
                                            ELSE "norow",
                   intact |-> intact[key]]
    /\ UNCHANGED <<rows, storage_provider, lastSet, intact, uploadVars,
                   adminVars, uiVars>>

\* .update({ storage_provider: p }).eq('wallet_address', key): the rows that
\* match are changed; matching no row is not an error
Update(key, p) ==
    [k \in Keys |-> IF k = key /\ k \in rows THEN p ELSE storage_provider[k]]

\* mutant: the error field of the update is not looked at
SetResult_IgnoreError(key, fault) ==
    IF key = ""
    THEN [status |-> "returned", success |-> FALSE, message |-> TRUE]
    ELSE IF fault = "throw"
    THEN [status |-> "returned", success |-> FALSE, message |-> TRUE]
    ELSE [status |-> "returned", success |-> TRUE, message |-> FALSE]

\* the result setStorageProvider(key, p) returns
SetResult(key, fault) ==
    IF key = ""
    THEN [status |-> "returned", success |-> FALSE, message |-> TRUE]
    ELSE IF fault # "none"
    THEN [status |-> "returned", success |-> FALSE, message |-> TRUE]
    ELSE [status |-> "returned", success |-> TRUE, message |-> FALSE]

setStorageProvider(key, p, fault) ==
    /\ storage_provider' = IF key # "" /\ fault = "none"
                           THEN Update(key, p) ELSE storage_provider
    /\ lastSet' = [key |-> key, provider |-> p, fault |-> fault,
                   status |-> SetResult(key, fault).status,
                   success |-> SetResult(key, fault).success,
                   message |-> SetResult(key, fault).message]
    /\ intact' = IF SetResult(key, fault).success
                 THEN [intact EXCEPT ![key] = p] ELSE intact
    /\ UNCHANGED <<rows, lastGet, uploadVars, adminVars, uiVars>>

\* another client of the record store inserts or rewrites the row of key
ExternalWrite(key, v) ==
    /\ key # ""
    /\ rows' = rows \cup {key}
    /\ storage_provider' = [storage_provider EXCEPT ![key] = v]
    /\ intact' = [intact EXCEPT ![key] = "none"]
    /\ UNCHANGED <<lastGet, lastSet, uploadVars, adminVars, uiVars>>

\* no call of getStorageProvider or setStorageProvider has been made
StoreIdle ==
    /\ lastGet = [key |-> "", fault |-> "none", status |-> "none",
                  value |-> "none", row |-> "norow", intact |-> "none"]
    /\ lastSet = [key |-> "", provider |-> "pinata", fault |-> "none",
                  status |-> "none",
                  success |-> FALSE, message |-> FALSE]
    /\ intact = [k \in Keys |-> "none"]

StoreInit ==
    /\ rows = {}
    /\ storage_provider = [k \in Keys |-> "null"]
    /\ StoreIdle

StoreNext ==
    \/ \E k \in Keys, f \in Faults : getStorageProvider(k, f)
    \/ \E k \in Keys, p \in {"pinata", "lighthouse"}, f \in Faults :
          setStorageProvider(k, p, f)
    \/ \E k \in Keys, v \in ColumnValues : ExternalWrite(k, v)

\* --------------------------------------------------------- fetchAdminInfo
\* what the nullable TEXT columns of organization_admins can hold
NameValues == {"null", "alice", "bob"}

EmailValues == {"null", "a@x"}

PlanValues == {"null", "pro"}

\* user_metadata.full_name and user.email of a session: absent or a string
MetaNames == {"undefined", "alice", "bob"}

MetaEmails == {"undefined", "a@x"}

NoSession == [user |-> FALSE, full_name |-> "undefined", email |-> "undefined"]

\* typeof v === 'string' ? v : null
StringOrNull(v) == IF v = "undefined" THEN "null" ELSE v

\* the AdminInfo with every field null and isAdmin = false
AllNull ==
    [status |-> "returned", fullName |-> "null", email |-> "null",
     subscriptionPlan |-> "null", isAdmin |-> FALSE]

\* mutant: a found row is not reported as an admin
AdminProfile_NotAdmin(row) ==
    [status |-> "returned", fullName |-> row.full_name, email |-> row.email,
     subscriptionPlan |-> row.subscription_plan, isAdmin |-> FALSE]

\* the AdminInfo built from the row the lookup returned
AdminProfile(row) ==
    [status |-> "returned", fullName |-> row.full_name, email |-> row.email,
     subscriptionPlan |-> row.subscription_plan, isAdmin |-> TRUE]

\* the AdminInfo built from the user of the session
SessionProfile(ses) ==
    [status |-> "returned", fullName |-> StringOrNull(ses.full_name),
     email |-> StringOrNull(ses.email), subscriptionPlan |-> "null",
     isAdmin |-> FALSE]

\* mutant: fetchAdminInfo has no try/catch
FetchCatch_Missing ==
    [status |-> "raised", fullName |-> "null", email |-> "null",
     subscriptionPlan |-> "null", isAdmin |-> FALSE]

\* the return of the catch clause of fetchAdminInfo
FetchCatch == AllNull

NoRow == [found |-> FALSE, full_name |-> "null", email |-> "null",
          subscription_plan |-> "null"]

\* .select('full_name, email, subscription_plan').eq(...).single(): the
\* data of the row; null when there is no row or an error is reported
SelectAdmin(key, fault) ==
    IF fault = "none" /\ key \in rows
    THEN [found |-> TRUE, full_name |-> full_name[key], email |-> email[key],
          subscription_plan |-> subscription_plan[key]]
    ELSE NoRow

\* supabase.auth.getSession(): the session; null when there is none or an
\* error is reported
GetSession(fault) ==
    IF fault = "none" THEN session ELSE NoSession

\* mutant: the lookup inserts a row for an address that has none
FetchTableEffect_Insert(key) ==
    /\ rows' = rows \cup {key}
    /\ UNCHANGED tableVars

\* what the lookup of fetchAdminInfo does to organization_admins: a select
\* writes nothing
FetchTableEffect(key) ==
    UNCHANGED <<rows, tableVars>>

IdleFetch ==
    [pc |-> "idle", key |-> "", selectFault |-> "none",
     sessionFault |-> "none", data |-> NoRow, ses |-> NoSession,
     result |-> [status |-> "pending", fullName |-> "null", email |-> "null",
                 subscriptionPlan |-> "null", isAdmin |-> FALSE]]

\* a call fetchAdminInfo(key) that ran up to its first await
FetchCall(key) ==
    IF key = ""
    THEN [IdleFetch EXCEPT !.pc = "done", !.result = AllNull]
    ELSE [IdleFetch EXCEPT !.pc = "a27", !.key = key]

\* the call f after its record lookup settled: a row ends the call,
\* otherwise the session is asked
AfterSelect(f, fault) ==
    LET data == SelectAdmin(f.key, fault)
    IN  IF fault = "throw"
        THEN [f EXCEPT !.pc = "done", !.selectFault = fault,
                       !.result = FetchCatch]
        ELSE IF data.found
        THEN [f EXCEPT !.pc = "done", !.selectFault = fault,
                       !.data = data, !.result = AdminProfile(data)]
        ELSE [f EXCEPT !.pc = "a47", !.selectFault = fault]

\* the call f after its session lookup settled
AfterSession(f, fault) ==
    LET ses == GetSession(fault)
    IN  IF fault = "throw"
        THEN [f EXCEPT !.pc = "done", !.sessionFault = fault,
                       !.result = FetchCatch]
        ELSE IF ses.user
        THEN [f EXCEPT !.pc = "done", !.sessionFault = fault,
                       !.ses = ses, !.result = SessionProfile(ses)]
        ELSE [f EXCEPT !.pc = "done", !.sessionFault = fault,
                       !.result = AllNull]

\* the call fetchAdminInfo(key), up to its first await
fetchAdminInfo(key) ==
    /\ fetch.pc = "idle"
    /\ fetch' = FetchCall(key)
    /\ UNCHANGED <<rows, tableVars, session, upd, storage_provider, lastGet,
                   lastSet, intact, uploadVars, uiVars>>

\* the record lookup settles; a row ends the call, otherwise the session is
\* asked
FetchSelectSettles(fault) ==
    /\ fetch.pc = "a27"
    /\ fetch' = AfterSelect(fetch, fault)
    /\ FetchTableEffect(fetch.key)
    /\ UNCHANGED <<session, upd, storage_provider, lastGet, lastSet, intact,
                   uploadVars, uiVars>>

\* the session lookup settles and the call returns
FetchSessionSettles(fault) ==
    /\ fetch.pc = "a47"
    /\ fetch' = AfterSession(fetch, fault)
    /\ UNCHANGED <<rows, tableVars, session, upd, storage_provider, lastGet,
                   lastSet, intact, uploadVars, uiVars>>

\* the caller is done with the result; the next call can start
FetchReset ==
    /\ fetch.pc = "done"
    /\ fetch' = IdleFetch
    /\ UNCHANGED <<rows, tableVars, session, upd, storage_provider, lastGet,
                   lastSet, intact, uploadVars, uiVars>>

\* another client of the record store inserts or rewrites the row of key
ExternalAdminWrite(key, n, e, p) ==
    /\ key # ""
    /\ rows' = rows \cup {key}
    /\ full_name' = [full_name EXCEPT ![key] = n]
    /\ email' = [email EXCEPT ![key] = e]
    /\ subscription_plan' = [subscription_plan EXCEPT ![key] = p]
    /\ UNCHANGED <<session, fetch, upd, storage_provider, lastGet, lastSet,
                   intact, uploadVars, uiVars>>

\* the user signs in or out, or the session metadata is what sign-up set
SessionChanges(u, n, e) ==
    /\ session' = IF u THEN [user |-> TRUE, full_name |-> n, email |-> e]
                       ELSE NoSession
    /\ session' # session
    /\ UNCHANGED <<rows, tableVars, fetch, upd, storage_provider, lastGet,
                   lastSet, intact, uploadVars, uiVars>>

\* -------------------------------------------------------- updateAdminInfo
\* the fullName and email of the updates argument: absent or a string
UpdateNames == {"undefined", "alice", "bob"}

UpdateEmails == {"undefined", "a@x"}

NoResult == [status |-> "pending", success |-> FALSE, message |-> "none"]

IdleUpdate ==
    [pc |-> "idle", key |-> "", fullName |-> "undefined",
     email |-> "undefined", hadRow |-> FALSE, isAdmin |-> FALSE,
     check |-> "notrun", record |-> "notrun", recordWritten |-> FALSE,
     sessionStep |-> "notrun", sessionWritten |-> FALSE,
     result |-> NoResult]

\* the return of the catch clause: the message of the error it caught
UpdFailure(msg) ==
    [status |-> "returned", success |-> FALSE, message |-> msg]

\* mutant: the result tells a call that wrote the record from one that did
\* not
UpdSuccess_Detailed(wroteRecord) ==
    [status |-> "returned", success |-> TRUE,
     message |-> IF wroteRecord THEN "none" ELSE "record not updated"]

\* return { success: true }, the same for every call that gets there
UpdSuccess(wroteRecord) ==
    [status |-> "returned", success |-> TRUE, message |-> "none"]

\* mutant: every caller is taken for an admin
IsAdmin_Always(found) == TRUE

\* const isAdmin = !!adminData
IsAdmin(found) == found

\* mutant: only a thrown error ends the call
Throws_Lenient(fault) == fault = "throw"

\* if (error) throw error: a reported error is thrown like a thrown one
Throws(fault) == fault # "none"

\* the statements after the record update: the session update when
\* fullName is given, otherwise the return
AfterRecord(u) ==
    IF u.fullName # "undefined"
    THEN [u EXCEPT !.pc = "u115", !.sessionStep = "pending"]
    ELSE [u EXCEPT !.pc = "done", !.result = UpdSuccess(u.recordWritten)]

\* a call updateAdminInfo(key, { fullName, email }) that ran up to its
\* first await
UpdateCall(key, fn, em) ==
    IF key = ""
    THEN [IdleUpdate EXCEPT !.pc = "done",
             !.result = UpdFailure("No wallet address provided")]
    ELSE [IdleUpdate EXCEPT !.pc = "u91", !.key = key,
             !.fullName = fn, !.email = em, !.check = "pending"]

\* the call updateAdminInfo(key, { fullName, email }), up to its first await
updateAdminInfo(key, fn, em) ==
    /\ upd.pc = "idle"
    /\ upd' = UpdateCall(key, fn, em)
    /\ UNCHANGED <<rows, tableVars, session, fetch, storage_provider,
                   lastGet, lastSet, intact, uploadVars, uiVars>>

\* the admin check settles; its error field is not read
UpdCheckSettles(fault) ==
    /\ upd.pc = "u91"
    /\ LET found == fault = "none" /\ upd.key \in rows
           u == [upd EXCEPT !.check = fault, !.hadRow = upd.key \in rows,
                            !.isAdmin = IsAdmin(found)]
       IN  upd' =
             IF fault = "throw"
             THEN [upd EXCEPT !.pc = "done", !.check = fault,
                              !.hadRow = upd.key \in rows,
                              !.result = UpdFailure("check threw")]
             ELSE IF u.isAdmin
             THEN [u EXCEPT !.pc = "u105", !.record = "pending"]
             ELSE AfterRecord(u)
    /\ UNCHANGED <<rows, tableVars, session, fetch, storage_provider,
                   lastGet, lastSet, intact, uploadVars, uiVars>>

\* .update(updateData).eq('wallet_address', key): the given fields of the
\* rows that match are changed
UpdateRow(col, key, v) ==
    [k \in Keys |-> IF k = key /\ k \in rows /\ v # "undefined"
                    THEN v ELSE col[k]]

\* the record update settles
UpdRecordSettles(fault) ==
    /\ upd.pc = "u105"
    /\ IF fault = "none"
       THEN /\ full_name' = UpdateRow(full_name, upd.key, upd.fullName)
            /\ email' = UpdateRow(email, upd.key, upd.email)
            /\ upd' = AfterRecord([upd EXCEPT !.record = fault,
                                      !.recordWritten = upd.key \in rows])
       ELSE /\ UNCHANGED <<full_name, email>>
            /\ upd' = IF Throws(fault)
                      THEN [upd EXCEPT !.pc = "done", !.record = fault,
                              !.result = UpdFailure(
                                 IF fault = "error" THEN "record error"
                                 ELSE "record threw")]
                      ELSE AfterRecord([upd EXCEPT !.record = fault])
    /\ UNCHANGED <<rows, subscription_plan, session, fetch,
                   storage_provider, lastGet, lastSet, intact, uploadVars, uiVars>>

\* supabase.auth.updateUser settles; without a session it reports an error
UpdSessionSettles(fault) ==
    /\ upd.pc = "u115"
    /\ LET f == IF fault = "none" /\ ~session.user THEN "error" ELSE fault
       IN  IF f = "none"
           THEN /\ session' = [session EXCEPT !.full_name = upd.fullName]
                /\ upd' = [upd EXCEPT !.pc = "done", !.sessionStep = f,
                              !.sessionWritten = TRUE,
                              !.result = UpdSuccess(upd.recordWritten)]
           ELSE /\ UNCHANGED session
                /\ upd' = IF Throws(f)
                          THEN [upd EXCEPT !.pc = "done", !.sessionStep = f,
                                  !.result = UpdFailure(
                                     IF f = "error" THEN "session error"
                                     ELSE "session threw")]
                          ELSE [upd EXCEPT !.pc = "done", !.sessionStep = f,
                                  !.result = UpdSuccess(upd.recordWritten)]
    /\ UNCHANGED <<rows, tableVars, fetch, storage_provider, lastGet,
                   lastSet, intact, uploadVars, uiVars>>

\* the caller is done with the result; the next call can start
UpdReset ==
    /\ upd.pc = "done"
    /\ upd' = IdleUpdate
    /\ UNCHANGED <<rows, tableVars, session, fetch, storage_provider,
                   lastGet, lastSet, intact, uploadVars, uiVars>>

AdminInit ==
    /\ full_name = [k \in Keys |-> "null"]
    /\ email = [k \in Keys |-> "null"]
    /\ subscription_plan = [k \in Keys |-> "null"]
    /\ session = NoSession
    /\ fetch = IdleFetch
    /\ upd = IdleUpdate

Environment ==
    \/ \E k \in Keys, n \in NameValues, e \in EmailValues, p \in PlanValues :
          ExternalAdminWrite(k, n, e, p)
    \/ \E u \in BOOLEAN, n \in MetaNames, e \in MetaEmails :
          SessionChanges(u, n, e)

UpdateNext ==
    \/ \E k \in Keys, fn \in UpdateNames, em \in UpdateEmails :
          updateAdminInfo(k, fn, em)
    \/ \E f \in Faults : UpdCheckSettles(f)
    \/ \E f \in Faults : UpdRecordSettles(f)
    \/ \E f \in Faults : UpdSessionSettles(f)
    \/ UpdReset
    \/ Environment

FetchNext ==
    \/ \E k \in Keys : fetchAdminInfo(k)
    \/ \E f \in Faults : FetchSelectSettles(f)
    \/ \E f \in Faults : FetchSessionSettles(f)
    \/ FetchReset
    \/ Environment

\* --------------------------------------------------------- ChangePassword
\* what the user can type into the two password inputs
Passwords == {"", "1234567", "12345678", "abcdefgh"}

\* submissions of the form and presses of Continue that are followed
MaxSubmits == 2

MaxContinue == 2

MinPasswordLength == 8

NoSubmit == [run |-> FALSE, password |-> "", confirmPassword |-> "",
             issued |-> FALSE, error |-> "null", success |-> FALSE]

\* the component after its first render; onSuccess is an optional prop
MountedForm(hasOnSuccess) ==
    [password |-> "", confirmPassword |-> "", isLoading |-> FALSE,
     error |-> "null", success |-> FALSE, mounted |-> TRUE,
     hasOnSuccess |-> hasOnSuccess,
     inFlight |-> 0,        \* calls of supabase.auth.updateUser not settled
     submits |-> 0,         \* runs of handleChangePassword
     succeeded |-> 0,       \* password updates the backend accepted
     timers |-> 0,          \* setTimeout callbacks of line 86 not yet run
     continues |-> 0,       \* presses of the Continue button
     onSuccessCalls |-> 0,  \* invocations of the onSuccess prop
     lastSubmit |-> NoSubmit]

\* mutant: every password passes the length check
validatePassword_Lenient(password) == TRUE

\* validatePassword: at least 8 characters
validatePassword(password) == Len(password) >= MinPasswordLength

\* the message of the first validation that fails, "null" when all pass
ValidationError(password, confirmPassword) ==
    IF password = "" \/ confirmPassword = ""
    THEN "Please enter both password fields"
    ELSE IF password # confirmPassword
    THEN "Passwords do not match"
    ELSE IF ~validatePassword(password)
    THEN "Password must be at least 8 characters long"
    ELSE "null"

\* the form is rendered while the component is mounted and success is false
FormRendered == cp.mounted /\ ~cp.success

\* onChange of the first input
setPassword(v) ==
    /\ FormRendered
    /\ v # cp.password
    /\ cp' = [cp EXCEPT !.password = v]
    /\ UNCHANGED <<uploadVars, storeVars, adminVars, activeAddress, us,
                   fetches, spt>>

\* onChange of the second input
setConfirmPassword(v) ==
    /\ FormRendered
    /\ v # cp.confirmPassword
    /\ cp' = [cp EXCEPT !.confirmPassword = v]
    /\ UNCHANGED <<uploadVars, storeVars, adminVars, activeAddress, us,
                   fetches, spt>>

\* the submit event of the form reaches handleChangePassword, which runs up
\* to its return or to the await of line 70.  The disabled attribute of the
\* button keeps clicks away while a field is empty; a submit event that is
\* dispatched on the form still gets here, and the handler checks again.
handleChangePassword ==
    /\ FormRendered
    /\ cp.submits < MaxSubmits
    /\ LET err == ValidationError(cp.password, cp.confirmPassword)
           issued == err = "null"
       IN  cp' = [cp EXCEPT
                    !.error = err,
                    !.isLoading = IF issued THEN TRUE ELSE @,
                    !.inFlight = IF issued THEN @ + 1 ELSE @,
                    !.submits = @ + 1,
                    !.lastSubmit =
                        [run |-> TRUE, password |-> cp.password,
                         confirmPassword |-> cp.confirmPassword,
                         issued |-> issued, error |-> err,
                         success |-> cp.success]]
    /\ UNCHANGED <<uploadVars, storeVars, adminVars, activeAddress, us,
                   fetches, spt>>

\* supabase.auth.updateUser({ password }) settles and the handler runs to
\* its end; the state setters of a component that is no longer mounted do
\* nothing, the timer of line 86 is armed all the same
updateUserSettles(fault) ==
    /\ cp.inFlight > 0
    /\ cp' =
          IF fault = "none"
          THEN [cp EXCEPT
                  !.inFlight = @ - 1,
                  !.succeeded = @ + 1,
                  !.success = IF cp.mounted THEN TRUE ELSE @,
                  !.password = IF cp.mounted THEN "" ELSE @,
                  !.confirmPassword = IF cp.mounted THEN "" ELSE @,
                  !.timers = IF cp.hasOnSuccess THEN @ + 1 ELSE @,
                  !.isLoading = IF cp.mounted THEN FALSE ELSE @]
          ELSE [cp EXCEPT
                  !.inFlight = @ - 1,
                  !.error = IF cp.mounted THEN "Failed to update password"
                                          ELSE @,
                  !.isLoading = IF cp.mounted THEN FALSE ELSE @]
    /\ UNCHANGED <<uploadVars, storeVars, adminVars, activeAddress, us,
                   fetches, spt>>

\* the parent's onSuccess runs; it may take the component off the screen
onSuccess(stays) ==
    [cp EXCEPT !.onSuccessCalls = @ + 1, !.mounted = @ /\ stays]

\* the 3 second timer of line 86 fires; nothing ever clears it
onSuccessTimerFires(stays) ==
    /\ cp.timers > 0
    /\ cp' = [onSuccess(stays) EXCEPT !.timers = @ - 1]
    /\ UNCHANGED <<uploadVars, storeVars, adminVars, activeAddress, us,
                   fetches, spt>>

\* the user presses Continue on the success view: onClick={onSuccess}
Continue(stays) ==
    /\ cp.mounted /\ cp.success
    /\ cp.hasOnSuccess
    /\ cp.continues < MaxContinue
    /\ cp' = [onSuccess(stays) EXCEPT !.continues = @ + 1]
    /\ UNCHANGED <<uploadVars, storeVars, adminVars, activeAddress, us,
                   fetches, spt>>

PasswordNext ==
    \/ \E v \in Passwords : setPassword(v)
    \/ \E v \in Passwords : setConfirmPassword(v)
    \/ handleChangePassword
    \/ \E f \in Faults : updateUserSettles(f)
    \/ \E stays \in BOOLEAN : onSuccessTimerFires(stays)
    \/ \E stays \in BOOLEAN : Continue(stays)

\* ----------------------------------------------------------- UserSettings
\* a wallet address that no row of organization_admins names
Guest == "guest"

\* the addresses useWallet() can report; "" is no connected wallet
Addresses == Keys \cup {Guest}

\* runs of the fetchUserData effect that call fetchAdminInfo
NumEffects == 2

Effects == 1 .. NumEffects

\* what the user can type into the two inputs of the profile form
FormNames == {"bob"}

FormEmails == {"b@x"}

\* how a lookup of the effect's fetchAdminInfo call settles; a reported
\* error is handled like a missing row
EffectFaults == {"none", "throw"}

\* useState<AdminInfo | null>(null)
NoAdminInfo ==
    [set |-> FALSE, fullName |-> "null", email |-> "null",
     subscriptionPlan |-> "null", isAdmin |-> FALSE]

NoSave == [run |-> FALSE, success |-> FALSE, key |-> "",
           userName |-> "null", userEmail |-> "null",
           persistedName |-> "null", persistedEmail |-> "null"]

\* the component after its first render without a wallet
MountedSettings ==
    [userName |-> "null", userEmail |-> "null", subscriptionPlan |-> "null",
     isAdmin |-> FALSE, isLoading |-> TRUE, error |-> "null",
     isEditing |-> FALSE, formName |-> "", formEmail |-> "",
     adminInfo |-> NoAdminInfo,
     saving |-> FALSE,            \* handleSaveProfile awaits line 68
     savedInfo |-> NoAdminInfo,   \* adminInfo in the closure of that run
     lastSave |-> NoSave]

\* value || ''
OrEmpty(v) == IF v \in {"null", "undefined", ""} THEN "" ELSE v

\* lines 39-52: the state setters after fetchAdminInfo resolved with info
ShowProfile(u, info) ==
    [u EXCEPT !.adminInfo = [set |-> TRUE, fullName |-> info.fullName,
                             email |-> info.email,
                             subscriptionPlan |-> info.subscriptionPlan,
                             isAdmin |-> info.isAdmin],
              !.userName = info.fullName,
              !.userEmail = info.email,
              !.subscriptionPlan = info.subscriptionPlan,
              !.isAdmin = info.isAdmin,
              !.formName = OrEmpty(info.fullName),
              !.formEmail = OrEmpty(info.email),
              !.isLoading = FALSE]

\* lines 48-52: the catch and finally clauses of fetchUserData
ShowFetchError(u) ==
    [u EXCEPT !.error = "Error fetching user data", !.isLoading = FALSE]

\* the continuation of fetchUserData when its fetchAdminInfo call f has
\* settled; nothing compares the address of f with the active one
FetchUserDataResumes(u, f) ==
    IF f.pc # "done" THEN u
    ELSE IF f.result.status = "raised" THEN ShowFetchError(u)
    ELSE ShowProfile(u, f.result)

\* the effect run that is free to take the next call of fetchAdminInfo
FreeEffect ==
    CHOOSE i \in Effects :
        /\ fetches[i].pc = "idle"
        /\ \A j \in Effects : fetches[j].pc = "idle" => i <= j

\* the wallet hook reports another address and the effect of lines 29-57
\* runs again, up to its await; the calls of earlier runs stay in flight
activeAddressChanges(a) ==
    /\ a # activeAddress
    /\ activeAddress' = a
    /\ IF a = ""
       THEN UNCHANGED <<us, fetches>>
       ELSE /\ \E i \in Effects : fetches[i].pc = "idle"
            /\ fetches' = [fetches EXCEPT ![FreeEffect] = FetchCall(a)]
            /\ us' = [us EXCEPT !.isLoading = TRUE, !.error = "null"]
    /\ UNCHANGED <<uploadVars, storeVars, adminVars, cp, spt>>

\* the record lookup of the call of effect run i settles
SettingsSelectSettles(i, fault) ==
    /\ fetches[i].pc = "a27"
    /\ fetches' = [fetches EXCEPT ![i] = AfterSelect(@, fault)]
    /\ us' = FetchUserDataResumes(us, fetches'[i])
    /\ UNCHANGED <<uploadVars, storeVars, adminVars, cp, activeAddress, spt>>

\* the session lookup of the call of effect run i settles
SettingsSessionSettles(i, fault) ==
    /\ fetches[i].pc = "a47"
    /\ fetches' = [fetches EXCEPT ![i] = AfterSession(@, fault)]
    /\ us' = FetchUserDataResumes(us, fetches'[i])
    /\ UNCHANGED <<uploadVars, storeVars, adminVars, cp, activeAddress, spt>>

\* the account tab shows its content for a connected wallet once the
\* spinner is gone
ProfileRendered == activeAddress # "" /\ ~us.isLoading

\* onClick of the Edit Profile / Cancel button
toggleEditing ==
    /\ ProfileRendered
    /\ us' = [us EXCEPT !.isEditing = ~@]
    /\ UNCHANGED <<uploadVars, storeVars, adminVars, cp, activeAddress,
                   fetches, spt>>

\* onChange of the Full Name input
setFormName(v) ==
    /\ ProfileRendered /\ us.isEditing
    /\ v # us.formName
    /\ us' = [us EXCEPT !.formName = v]
    /\ UNCHANGED <<uploadVars, storeVars, adminVars, cp, activeAddress,
                   fetches, spt>>

\* onChange of the Email Address input
setFormEmail(v) ==
    /\ ProfileRendered /\ us.isEditing
    /\ v # us.formEmail
    /\ us' = [us EXCEPT !.formEmail = v]
    /\ UNCHANGED <<uploadVars, storeVars, adminVars, cp, activeAddress,
                   fetches, spt>>

\* onClick of Save Changes: handleSaveProfile up to its await of line 68;
\* the closure holds the address, the form values and adminInfo of this
\* render.  One run of the handler is followed.
handleSaveProfile ==
    /\ ProfileRendered /\ us.isEditing
    /\ ~us.saving /\ ~us.lastSave.run
    /\ upd.pc = "idle"
    /\ upd' = UpdateCall(activeAddress, us.formName, us.formEmail)
    /\ us' = [us EXCEPT !.saving = TRUE, !.savedInfo = us.adminInfo]
    /\ UNCHANGED <<uploadVars, storeVars, rows, tableVars, session, fetch,
                   cp, activeAddress, fetches, spt>>

\* what the backend holds for an account: the name and email of its row
\* for an admin, of the session for other accounts
Persisted(key) ==
    IF key \in rows
    THEN [name |-> full_name[key], email |-> email[key]]
    ELSE [name |-> session.full_name, email |-> session.email]

\* lines 73-94: handleSaveProfile after updateAdminInfo resolved
SaveProfileResumes ==
    /\ us.saving
    /\ upd.pc = "done"
    /\ LET shown ==
             IF upd.result.success
             THEN [us EXCEPT
                     !.userName = upd.fullName,
                     !.userEmail = upd.email,
                     !.adminInfo =
                         IF us.savedInfo.set
                         THEN [us.savedInfo EXCEPT !.fullName = upd.fullName,
                                                   !.email = upd.email]
                         ELSE @,
                     !.isEditing = FALSE]
             ELSE us
       IN  us' = [shown EXCEPT
                    !.saving = FALSE,
                    !.savedInfo = NoAdminInfo,
                    !.lastSave =
                        [run |-> TRUE, success |-> upd.result.success,
                         key |-> upd.key,
                         userName |-> shown.userName,
                         userEmail |-> shown.userEmail,
                         persistedName |-> Persisted(upd.key).name,
                         persistedEmail |-> Persisted(upd.key).email]]
    /\ upd' = IdleUpdate
    /\ UNCHANGED <<uploadVars, storeVars, rows, tableVars, session, fetch,
                   cp, activeAddress, fetches, spt>>

SettingsNext ==
    \/ \E a \in Addresses : activeAddressChanges(a)
    \/ \E i \in Effects, f \in EffectFaults : SettingsSelectSettles(i, f)
    \/ \E i \in Effects, f \in EffectFaults : SettingsSessionSettles(i, f)
    \/ toggleEditing
    \/ \E v \in FormNames : setFormName(v)
    \/ \E v \in FormEmails : setFormEmail(v)
    \/ handleSaveProfile
    \/ \E f \in Faults : UpdCheckSettles(f)
    \/ \E f \in Faults : UpdRecordSettles(f)
    \/ \E f \in Faults : UpdSessionSettles(f)
    \/ SaveProfileResumes

\* ---------------------------------------------------- StorageProviderTest
NoHandler == [pc |-> "idle", value |-> "none", call |-> 0, success |-> FALSE]

\* the component when its first render is done and the effect of lines
\* 235-248 has sent its getStorageProvider request
MountedTest ==
    [currentProvider |-> "pinata", selectedFile |-> FALSE,
     uploading |-> FALSE, uploadResult |-> "null", notification |-> "null",
     load |-> [NoHandler EXCEPT !.pc = "h239"],  \* loadStorageProvider
     up |-> NoHandler,                           \* handleUpload
     ch |-> NoHandler,                           \* handleProviderChange
     lookupFailed |-> FALSE]   \* a lookup of the component hit an error

\* the record store answers the lookup of loadStorageProvider; the response
\* is on its way
LoadReadsProvider(fault) ==
    /\ spt.load.pc = "h239"
    /\ spt' = [spt EXCEPT
                 !.load.pc = "h239r",
                 !.load.value = GetResult(activeAddress, fault).value,
                 !.lookupFailed = @ \/ fault # "none"]
    /\ UNCHANGED <<uploadVars, storeVars, adminVars, cp, activeAddress, us,
                   fetches>>

\* line 240: the response arrives and loadStorageProvider resumes
LoadGotProvider ==
    /\ spt.load.pc = "h239r"
    /\ spt' = [spt EXCEPT !.load.pc = "done",
                          !.currentProvider = spt.load.value]
    /\ UNCHANGED <<uploadVars, storeVars, adminVars, cp, activeAddress, us,
                   fetches>>

\* handleFileSelect
selectFile ==
    /\ ~spt.selectedFile
    /\ spt' = [spt EXCEPT !.selectedFile = TRUE]
    /\ UNCHANGED <<uploadVars, storeVars, adminVars, cp, activeAddress, us,
                   fetches>>

\* onClick of the upload button, which is disabled without a file and while
\* uploading: handleUpload up to its await of line 265
handleUpload ==
    /\ spt.selectedFile /\ ~spt.uploading
    /\ activeAddress # ""
    /\ spt.up.pc = "idle"
    /\ \E c \in Calls : pc[c] = "idle"
    /\ spt' = [spt EXCEPT
                 !.uploading = TRUE, !.uploadResult = "null",
                 !.notification = "null",
                 !.up = [NoHandler EXCEPT
                           !.pc = "h265",
                           !.call = CHOOSE c \in Calls :
                                      /\ pc[c] = "idle"
                                      /\ \A d \in Calls :
                                            pc[d] = "idle" => c <= d]]
    /\ UNCHANGED <<uploadVars, storeVars, adminVars, cp, activeAddress, us,
                   fetches>>

\* the record store answers the lookup of handleUpload
UploadReadsProvider(fault) ==
    /\ spt.up.pc = "h265"
    /\ spt' = [spt EXCEPT
                 !.up.pc = "h265r",
                 !.up.value = GetResult(activeAddress, fault).value,
                 !.lookupFailed = @ \/ fault # "none"]
    /\ UNCHANGED <<uploadVars, storeVars, adminVars, cp, activeAddress, us,
                   fetches>>

\* line 266: the response arrives, handleUpload shows the provider it read
\* and goes on to call uploadFileToIPFS
UploadGotProvider ==
    /\ spt.up.pc = "h265r"
    /\ spt' = [spt EXCEPT !.up.pc = "h269",
                          !.currentProvider = spt.up.value]
    /\ UNCHANGED <<uploadVars, storeVars, adminVars, cp, activeAddress, us,
                   fetches>>

\* line 269: uploadFileToIPFS(selectedFile, provider) runs to its first
\* await
UploadCallsIPFS ==
    /\ spt.up.pc = "h269"
    /\ uploadFileToIPFS(spt.up.call, spt.up.value, FALSE)

\* lines 270-289: the upload returned (or rejected) and handleUpload runs
\* to its end
handleUploadResumes ==
    /\ spt.up.pc = "h269"
    /\ pc[spt.up.call] = "done"
    /\ spt' = [spt EXCEPT
                 !.up = NoHandler,
                 !.uploading = FALSE,
                 !.uploadResult =
                     IF outcome[spt.up.call].status = "rejected"
                     THEN [success |-> FALSE, cid |-> NoCid,
                           provider |-> spt.currentProvider,
                           fallbackUsed |-> FALSE]
                     ELSE [success |-> outcome[spt.up.call].success,
                           cid |-> outcome[spt.up.call].cid,
                           provider |-> outcome[spt.up.call].provider,
                           fallbackUsed |->
                               outcome[spt.up.call].fallbackUsed],
                 !.notification =
                     IF outcome[spt.up.call].status = "rejected"
                     THEN "Upload failed" ELSE @]
    /\ UNCHANGED <<uploadVars, storeVars, adminVars, cp, activeAddress, us,
                   fetches>>

\* onClick of a provider button: handleProviderChange(p) up to its await
\* of line 297
handleProviderChange(p) ==
    /\ activeAddress # ""
    /\ spt.ch.pc = "idle"
    /\ spt' = [spt EXCEPT !.notification = "null",
                          !.ch = [NoHandler EXCEPT !.pc = "h297",
                                                   !.value = p]]
    /\ UNCHANGED <<uploadVars, storeVars, adminVars, cp, activeAddress, us,
                   fetches>>

\* the record store runs the update of setStorageProvider; the response is
\* on its way
ChangeWritesProvider(fault) ==
    /\ spt.ch.pc = "h297"
    /\ storage_provider' = IF fault = "none"
                           THEN Update(activeAddress, spt.ch.value)
                           ELSE storage_provider
    /\ spt' = [spt EXCEPT
                 !.ch.pc = "h297r",
                 !.ch.success = SetResult(activeAddress, fault).success]
    /\ UNCHANGED <<uploadVars, rows, lastGet, lastSet, intact, adminVars, cp,
                   activeAddress, us, fetches>>

\* lines 298-309: the response arrives and handleProviderChange resumes
ChangeGotResult ==
    /\ spt.ch.pc = "h297r"
    /\ spt' = [spt EXCEPT
                 !.ch = NoHandler,
                 !.currentProvider = IF spt.ch.success THEN spt.ch.value
                                                       ELSE @,
                 !.notification = IF spt.ch.success
                                  THEN "Storage provider updated"
                                  ELSE "Failed to update provider"]
    /\ UNCHANGED <<uploadVars, storeVars, adminVars, cp, activeAddress, us,
                   fetches>>

ProviderTestNext ==
    \/ \E f \in Faults : LoadReadsProvider(f)
    \/ LoadGotProvider
    \/ selectFile
    \/ handleUpload
    \/ \E f \in Faults : UploadReadsProvider(f)
    \/ UploadGotProvider
    \/ UploadCallsIPFS
    \/ \E c \in Calls, s \in Settlements : uploadFileToLighthouseSettles(c, s)
    \/ \E c \in Calls : TimeoutFires(c)
    \/ \E c \in Calls, s \in Settlements : pinFileToIPFSSettles(c, s)
    \/ handleUploadResumes
    \/ \E p \in {"pinata", "lighthouse"} : handleProviderChange(p)
    \/ \E f \in Faults : ChangeWritesProvider(f)
    \/ ChangeGotResult

\* ------------------------------------------------------- specifications
\* no component is in use
UiIdle ==
    /\ activeAddress = ""
    /\ us = MountedSettings
    /\ fetches = [i \in Effects |-> IdleFetch]
    /\ spt = [MountedTest EXCEPT !.load = NoHandler]

Init == UploadInit /\ StoreInit /\ AdminInit /\ cp = MountedForm(TRUE) /\ UiIdle

Next == UploadNext

\* the upload orchestrator, two calls in flight
Spec == Init /\ [][Next]_vars

\* the timer and the Pinata adapter eventually settle; the Lighthouse
\* adapter may stay pending for ever
Fairness ==
    \A c \in Calls :
        /\ WF_vars(TimeoutFires(c))
        /\ WF_vars(MockDelayElapses(c))
        /\ WF_vars(\E s \in Settlements : pinFileToIPFSSettles(c, s))

FairSpec == Init /\ [][Next]_vars /\ Fairness

\* the record store components do not depend on the upload variant: their
\* specifications start with one loaded variant and no upload in flight
RecordInit == Init /\ variant = "timeout" /\ apiKey

\* the provider preference store
StoreSpec == RecordInit /\ [][StoreNext]_vars

\* fetchAdminInfo, with other clients of the table and of the session
FetchSpec == RecordInit /\ [][FetchNext]_vars

\* updateAdminInfo, with other clients of the table and of the session
UpdateSpec == RecordInit /\ [][UpdateNext]_vars

\* ChangePassword, with or without an onSuccess prop
PasswordInit ==
    /\ UploadInit /\ variant = "timeout" /\ apiKey
    /\ StoreInit /\ AdminInit
    /\ cp \in {MountedForm(h) : h \in BOOLEAN}
    /\ UiIdle

PasswordSpec == PasswordInit /\ [][PasswordNext]_vars

\* the accounts UserSettings is opened with: some wallets have a row, and
\* the browser has a session or none; nobody else writes while it is open
SettingsInit ==
    /\ UploadInit /\ variant = "timeout" /\ apiKey
    /\ rows \in SUBSET (Keys \ {""})
    /\ storage_provider = [k \in Keys |-> IF k \in rows THEN "pinata"
                                                         ELSE "null"]
    /\ StoreIdle
    /\ full_name = [k \in Keys |-> IF k \in rows THEN "alice" ELSE "null"]
    /\ email = [k \in Keys |-> IF k \in rows THEN "a@x" ELSE "null"]
    /\ subscription_plan = [k \in Keys |-> IF k \in rows THEN "pro"
                                                          ELSE "null"]
    /\ session \in {NoSession,
                     [user |-> TRUE, full_name |-> "alice", email |-> "a@x"]}
    /\ fetch = IdleFetch
    /\ upd = IdleUpdate
    /\ cp = MountedForm(TRUE)
    /\ UiIdle

SettingsSpec == SettingsInit /\ [][SettingsNext]_vars

\* StorageProviderTest opened by a connected wallet that has a row or none;
\* nobody else writes while it is open
ProviderTestInit ==
    /\ UploadInit /\ variant = "timeout" /\ apiKey
    /\ rows \in SUBSET (Keys \ {""})
    /\ storage_provider \in [Keys -> {"null", "pinata", "lighthouse"}]
    /\ \A k \in Keys : k \notin rows => storage_provider[k] = "null"
    /\ StoreIdle
    /\ AdminInit
    /\ cp = MountedForm(TRUE)
    /\ activeAddress \in Keys \ {""}
    /\ us = MountedSettings
    /\ fetches = [i \in Effects |-> IdleFetch]
    /\ spt = MountedTest

ProviderTestSpec == ProviderTestInit /\ [][ProviderTestNext]_vars

\* ================================================================ claims
Returned(c) == pc[c] = "done"

\* the Lighthouse attempt of call c was lost: the adapter threw or returned
\* a failure result first, or the timer fired first
LighthouseLost(c) ==
    \/ raceWinner[c] = "timeout"
    \/ raceWinner[c] = "lighthouse" /\ lh[c] \in {"fail", "threw"}

\* C1: in the timeout variant, a call with provider = lighthouse and
\* skipLighthouse = false whose Lighthouse attempt threw, returned a failure
\* result or lost against the timer returns provider = pinata and
\* fallbackUsed = true, whatever the Pinata adapter does.
C1_FallbackOutcome ==
    \A c \in Calls :
        (/\ variant = "timeout"
         /\ Returned(c)
         /\ provider[c] = "lighthouse" /\ ~skipLighthouse[c]
         /\ LighthouseLost(c))
        => /\ outcome[c].provider = "pinata"
           /\ outcome[c].fallbackUsed

\* C2: in one call each adapter is invoked at most once.
C2_OneAttemptPerAdapter ==
    \A c \in Calls : lhCalls[c] <= 1 /\ pinCalls[c] <= 1

\* C3: every returned outcome has fallbackUsed = true exactly when its
\* provider differs from the provider passed in.
C3_FallbackFlagConsistent ==
    \A c \in Calls :
        outcome[c].status = "resolved"
        => (outcome[c].fallbackUsed <=> outcome[c].provider # provider[c])

C3_Witness ==
    \E c \in Calls :
        /\ variant = "timeout"
        /\ outcome[c].status = "resolved"
        /\ provider[c] = "lighthouse"
        /\ outcome[c].provider = "pinata"
        /\ outcome[c].fallbackUsed

C5_NeverRejects ==
    \A c \in Calls :
        /\ outcome[c].status # "rejected"
        /\ Returned(c)
           => /\ outcome[c].status = "resolved"
              /\ outcome[c].success \in BOOLEAN
              /\ outcome[c].provider \in Providers
              /\ (pin[c] = "threw" \/ (pinCalls[c] = 0 /\ lh[c] = "threw"))
                 => ~outcome[c].success

C5_Witness ==
    \E c \in Calls :
        /\ Returned(c) /\ pin[c] = "threw" /\ pinCalls[c] = 2
        /\ outcome[c].status = "resolved" /\ ~outcome[c].success

\* C6: a call with provider = lighthouse whose Lighthouse adapter never
\* settles returns after the timer fired, with provider = pinata and
\* fallbackUsed = true.
C6_HangingLighthouseOutcome ==
    \A c \in Calls :
        (/\ variant = "timeout"
         /\ Returned(c)
         /\ raceWinner[c] = "timeout"
         /\ lh[c] = "pending")
        => /\ outcome[c].provider = "pinata"
           /\ outcome[c].fallbackUsed

\* C6, the liveness half: every call that waits for Lighthouse returns.
C6_EventuallyReturns ==
    \A c \in Calls : (pc[c] \in AwaitLighthouse) ~> Returned(c)

\* the liveness half restricted to the variant that has the timer
C6_TimeoutVariantReturns ==
    \A c \in Calls : (pc[c] = "t121") ~> Returned(c)

\* C7: once the timer has won the race the pending Lighthouse call can
\* still complete, and the outcome's success flag and content identifier
\* stay those of the Pinata call.
C7_LateLighthouseIgnored ==
    \A c \in Calls :
        (Returned(c) /\ raceWinner[c] = "timeout")
        => /\ outcome[c].success = AdapterResult("pinata", pin[c]).success
           /\ outcome[c].cid = AdapterResult("pinata", pin[c]).cid

\* the file stored on both services: Lighthouse completed after the timer
C7_Witness ==
    \E c \in Calls :
        /\ Returned(c) /\ raceWinner[c] = "timeout"
        /\ lh[c] = "ok" /\ pin[c] = "ok"
        /\ outcome[c].cid = PinataCid

\* C8: when Lighthouse settles with success before the timer, the call has
\* returned provider = lighthouse, fallbackUsed = false and the Lighthouse
\* content identifier, Pinata is never invoked, and the timer firing later
\* changes none of it.
C8_LighthouseWinsRace ==
    \A c \in Calls :
        (raceWinner[c] = "lighthouse" /\ lh[c] = "ok")
        => /\ Returned(c)
           /\ outcome[c] = [status |-> "resolved", success |-> TRUE,
                            cid |-> LighthouseCid, provider |-> "lighthouse",
                            fallbackUsed |-> FALSE, hasFallbackUsed |-> TRUE]
           /\ pinCalls[c] = 0 /\ pin[c] = "none"

C8_Witness ==
    \E c \in Calls :
        /\ raceWinner[c] = "lighthouse" /\ lh[c] = "ok"
        /\ timer[c] = "fired"
        /\ outcome[c].provider = "lighthouse"

\* C9: after setStorageProvider(key, lighthouse) returned success = true
\* for a non-empty key, with no write in between, getStorageProvider(key)
\* returns lighthouse.
C9_SetGetRoundTrip ==
    (/\ lastGet.status = "returned"
     /\ lastGet.key # ""
     /\ lastGet.fault = "none"
     /\ lastGet.intact = "lighthouse")
    => lastGet.value = "lighthouse"

\* C10: getStorageProvider never raises, and returns pinata for an empty
\* key, a missing row, a null or empty storage_provider, a reported lookup
\* error and a thrown lookup error.
C10_GetDefaultsToPinata ==
    /\ lastGet.status # "raised"
    /\ (/\ lastGet.status = "returned"
        /\ \/ lastGet.key = ""
           \/ lastGet.row = "norow"
           \/ lastGet.row \in {"null", ""}
           \/ lastGet.fault # "none")
       => lastGet.value = "pinata"

C10_Witness ==
    /\ lastGet.status = "returned"
    /\ lastGet.key # ""
    /\ lastGet.row = ""
    /\ lastGet.fault = "none"
    /\ lastGet.value = "pinata"

\* C11: setStorageProvider never raises; with an empty key, a reported
\* update error or a thrown update error it returns success = false with a
\* message, and success = true only when the update reported no error.
C11_SetReportsWriteErrors ==
    /\ lastSet.status # "raised"
    /\ lastSet.status = "returned"
       => /\ (lastSet.key = "" \/ lastSet.fault # "none")
             => (~lastSet.success /\ lastSet.message)
          /\ lastSet.success => lastSet.fault = "none"

C11_Witness ==
    /\ lastSet.status = "returned"
    /\ lastSet.key # ""
    /\ lastSet.fault = "error"
    /\ ~lastSet.success /\ lastSet.message

\* C12: fetchAdminInfo returns isAdmin = true exactly when the record
\* lookup yields a row, with that row's full_name, email and
\* subscription_plan; with no row and a session it returns the session's
\* full_name and email, subscriptionPlan = null and isAdmin = false; with
\* neither it returns all fields null and isAdmin = false.
C12_FetchMergesSources ==
    (fetch.pc = "done" /\ fetch.key # "")
    => /\ fetch.result.isAdmin <=> fetch.data.found
       /\ fetch.data.found
          => /\ fetch.result.fullName = fetch.data.full_name
             /\ fetch.result.email = fetch.data.email
             /\ fetch.result.subscriptionPlan = fetch.data.subscription_plan
       /\ (~fetch.data.found /\ fetch.ses.user)
          => /\ fetch.result.fullName =
                   (IF fetch.ses.full_name = "undefined" THEN "null"
                    ELSE fetch.ses.full_name)
             /\ fetch.result.email =
                   (IF fetch.ses.email = "undefined" THEN "null"
                    ELSE fetch.ses.email)
             /\ fetch.result.subscriptionPlan = "null"
       /\ (~fetch.data.found /\ ~fetch.ses.user)
          => /\ fetch.result.fullName = "null"
             /\ fetch.result.email = "null"
             /\ fetch.result.subscriptionPlan = "null"

C12_Witness ==
    /\ fetch.pc = "done"
    /\ fetch.data.found
    /\ fetch.result.isAdmin
    /\ fetch.result.fullName = "alice"
    /\ fetch.result.subscriptionPlan = "pro"

\* C13 as stated: fetchAdminInfo never raises, and after a failed record
\* lookup or session lookup (thrown, or reported with a code other than
\* 'no rows') the profile is all null with isAdmin = false.
C13_ErrorsGiveAllNull ==
    /\ fetch.result.status # "raised"
    /\ (/\ fetch.pc = "done"
        /\ fetch.selectFault # "none" \/ fetch.sessionFault # "none")
       => fetch.result = AllNull

\* C13 as amended: fetchAdminInfo never raises; a thrown error of either
\* lookup and a failed session lookup give the all-null profile; an error
\* reported by the record lookup is handled like a missing row: isAdmin =
\* false and subscriptionPlan = null, with the session's name and email
\* when the session lookup yields a session and all null otherwise.
C13_ErrorsDegrade ==
    /\ fetch.result.status # "raised"
    /\ fetch.pc = "done"
       => /\ (fetch.selectFault = "throw" \/ fetch.sessionFault # "none")
             => fetch.result = AllNull
          /\ fetch.selectFault = "error"
             => /\ ~fetch.result.isAdmin
                /\ fetch.result.subscriptionPlan = "null"
                /\ ~fetch.ses.user => fetch.result = AllNull

C13_Witness ==
    /\ fetch.pc = "done"
    /\ fetch.selectFault = "error"
    /\ fetch.sessionFault = "none"
    /\ fetch.ses.user
    /\ fetch.result.fullName = "alice"
    /\ ~fetch.result.isAdmin

\* C20 as stated: after fetchAdminInfo(key) completes for a key that had no
\* row, a row for that key exists.
C20_LookupCreatesRow ==
    (/\ fetch.pc = "done"
     /\ fetch.key # ""
     /\ fetch.selectFault = "none"
     /\ ~fetch.data.found)
    => fetch.key \in rows

\* C20 as amended: fetchAdminInfo never writes to organization_admins; no
\* step of it creates or changes a row.
C20_LookupWritesNothing ==
    [][fetch' # fetch
       => /\ rows' = rows
          /\ full_name' = full_name
          /\ email' = email
          /\ subscription_plan' = subscription_plan]_vars

C20_Witness ==
    /\ fetch.pc = "done"
    /\ fetch.key # ""
    /\ fetch.selectFault = "none"
    /\ ~fetch.data.found
    /\ fetch.key \notin rows

\* C14: updateAdminInfo writes to organization_admins only when a row for
\* the key exists: for a key with no row no update is issued, no row is
\* created and the table is left as it was by every step of the call.
C14_NoRowNoWrite ==
    [][(upd' # upd /\ upd'.pc # "idle" /\ ~upd'.hadRow)
       => /\ upd'.record = "notrun"
          /\ rows' = rows
          /\ full_name' = full_name
          /\ email' = email
          /\ subscription_plan' = subscription_plan]_vars

C14_Witness ==
    /\ upd.pc = "done"
    /\ upd.key # ""
    /\ upd.check = "none"
    /\ ~upd.hadRow
    /\ upd.key \notin rows
    /\ upd.record = "notrun"
    /\ upd.result.success

\* C15: updateAdminInfo runs the admin check, then the record update, then
\* the session update; after a record update that reported an error the
\* session update is never attempted and the result is success = false with
\* the message of that first error.
C15_FirstErrorStops ==
    /\ upd.record # "notrun" => upd.check = "none"
    /\ upd.sessionStep # "notrun"
       => /\ upd.check \in {"none", "error"}
          /\ upd.isAdmin => upd.record = "none"
    /\ upd.record = "error"
       => /\ upd.sessionStep = "notrun"
          /\ upd.pc = "done"
          /\ ~upd.result.success
          /\ upd.result.message = "record error"

C15_Witness ==
    /\ upd.pc = "done"
    /\ upd.record = "error"
    /\ upd.fullName # "undefined"
    /\ session.user
    /\ upd.sessionStep = "notrun"
    /\ upd.result.message = "record error"

\* C16: a call of updateAdminInfo can update the session display name and
\* not the record, and every successful call returns the same
\* { success: true }, whether or not it updated the record.
C16_SuccessHidesPartialUpdate ==
    (upd.pc = "done" /\ upd.result.success)
    => upd.result = [status |-> "returned", success |-> TRUE,
                     message |-> "none"]

C16_Witness ==
    /\ upd.pc = "done"
    /\ upd.result.success
    /\ upd.sessionWritten
    /\ ~upd.recordWritten
    /\ session.full_name = upd.fullName

\* C17: with no Lighthouse API key the adapter takes the mock path, which
\* settles with success and a synthetic identifier before the 3 second
\* timer; a call with provider = lighthouse then returns success = true,
\* provider = lighthouse, fallbackUsed = false, and Pinata is never invoked.
C17_MockPathWins ==
    \A c \in Calls :
        (/\ ~apiKey
         /\ pc[c] # "idle"
         /\ provider[c] = "lighthouse" /\ ~skipLighthouse[c])
        => /\ pinCalls[c] = 0
           /\ timer[c] = "fired" => lh[c] = "mocked"
           /\ raceWinner[c] # "timeout"
           /\ Returned(c)
              => /\ lh[c] = "mocked"
                 /\ outcome[c].status = "resolved"
                 /\ outcome[c].success
                 /\ outcome[c].cid = MockCid
                 /\ outcome[c].provider = "lighthouse"
                 /\ ~outcome[c].fallbackUsed

C17_Witness ==
    \E c \in Calls :
        /\ ~apiKey /\ variant = "timeout"
        /\ Returned(c) /\ raceWinner[c] = "lighthouse"
        /\ timer[c] = "fired"
        /\ outcome[c].cid = MockCid
        /\ outcome[c].provider = "lighthouse"

\* C18: whichever provider is preferred, when its adapter fails the upload
\* is attempted on the other provider before the call returns.
C18_FallbackEitherWay ==
    \A c \in Calls :
        (variant = "timeout" /\ Returned(c) /\ ~skipLighthouse[c])
        => /\ (provider[c] = "lighthouse" /\ LighthouseLost(c))
              => pinCalls[c] >= 1
           /\ (provider[c] = "pinata" /\ pin[c] \in {"fail", "threw"})
              => lhCalls[c] >= 1

\* C19: for a provider argument that is not lighthouse only the Pinata
\* adapter is invoked, and the outcome names pinata as the provider.
C19_UnknownProviderIsPinata ==
    \A c \in Calls :
        (pc[c] # "idle" /\ provider[c] # "lighthouse")
        => /\ lhCalls[c] = 0
           /\ Returned(c) => /\ pinCalls[c] = 1
                             /\ outcome[c].provider = "pinata"

\* ------------------------------------------------ one call on its own
\* what the race of line 121 handed to call c: the timeout branch, or the
\* value or error of its own uploadFileToLighthouse invocation
LighthouseSeen(c) ==
    IF raceWinner[c] = "timeout" THEN TimeoutBranch
    ELSE Event("lighthouse", lh[c])

\* the value or error of the i-th pinFileToIPFS invocation of a call
PinEvent(pins, i) == Event("pinata", pins[i])

\* return { ...result, provider, fallbackUsed } of a call that runs alone
SoloReturn(ev, prov, fb) ==
    [success |-> ev.success, cid |-> ev.cid, provider |-> prov,
     fallbackUsed |-> fb]

\* the return of the outer catch clause of a call that runs alone
SoloCatch(p) ==
    [success |-> FALSE, cid |-> NoCid, provider |-> p, fallbackUsed |-> FALSE]

\* a Pinata attempt that is the last statement before the return: its error
\* goes to the outer catch clause
SoloPinata(pins, i, p, prov, fb) ==
    IF PinEvent(pins, i).kind = "throw" THEN SoloCatch(p)
    ELSE SoloReturn(PinEvent(pins, i), prov, fb)

\* uploadFileToIPFS(file, p, s) of the timeout variant, run from its first
\* line to its return with nothing else in flight: lhEv is what the race
\* hands over and pins is how its pinFileToIPFS invocations settle, in order
SoloTimeout(p, s, lhEv, pins) ==
    IF p = "lighthouse" /\ s
    THEN SoloPinata(pins, 1, p, "pinata", TRUE)
    ELSE IF p = "lighthouse"
    THEN IF lhEv.kind = "throw"
         THEN SoloPinata(pins, 1, p, "pinata", TRUE)
         ELSE IF lhEv.success
         THEN SoloReturn(lhEv, p, FALSE)
         ELSE IF PinEvent(pins, 1).kind = "throw"
         THEN SoloPinata(pins, 2, p, "pinata", TRUE)
         ELSE SoloReturn(PinEvent(pins, 1), "pinata", TRUE)
    ELSE SoloPinata(pins, 1, p, p, FALSE)

\* C21: two calls of uploadFileToIPFS (timeout variant) that run
\* concurrently, with their adapter calls and timers interleaved in any
\* order, do not influence each other: the outcome of each call (success,
\* cid, provider, fallbackUsed) is the outcome the call produces alone from
\* the results of its own adapter invocations and its own timer.
C21_CallsIndependent ==
    variant = "timeout" =>
        \A c \in Calls :
            Returned(c) =>
                LET solo == SoloTimeout(provider[c], skipLighthouse[c],
                                        LighthouseSeen(c), pinLog[c])
                IN  /\ outcome[c].status = "resolved"
                    /\ outcome[c].success = solo.success
                    /\ outcome[c].cid = solo.cid
                    /\ outcome[c].provider = solo.provider
                    /\ outcome[c].fallbackUsed = solo.fallbackUsed

\* both calls were in flight together and returned different outcomes:
\* call 1 fell back after its timer fired while its Lighthouse upload is
\* still pending, call 2 returned the Lighthouse result
C21_Witness ==
    /\ variant = "timeout"
    /\ Returned(1) /\ Returned(2)
    /\ raceWinner[1] = "timeout" /\ lh[1] = "pending"
    /\ outcome[1].fallbackUsed /\ outcome[1].provider = "pinata"
    /\ raceWinner[2] = "lighthouse"
    /\ outcome[2].provider = "lighthouse" /\ ~outcome[2].fallbackUsed
    /\ outcome[2].success

\* C22: in the timeout variant, a call with provider = lighthouse and
\* skipLighthouse = true never invokes the Lighthouse adapter and starts no
\* timer, invokes Pinata exactly once, and returns provider = pinata and
\* fallbackUsed = true whatever Pinata does (success, failure result, thrown
\* error).
C22_SkipLighthouseOutcome ==
    \A c \in Calls :
        variant = "timeout" /\ provider[c] = "lighthouse" /\ skipLighthouse[c]
          /\ pc[c] # "idle" =>
            /\ lhCalls[c] = 0
            /\ timer[c] = "none"
            /\ pinCalls[c] = 1
            /\ Returned(c) => /\ outcome[c].provider = "pinata"
                              /\ outcome[c].fallbackUsed

\* C23: the three variants agree where no fallback is needed: for provider =
\* pinata with any Pinata behaviour, and for provider = lighthouse with
\* Lighthouse succeeding before the timer, every variant returns the success
\* flag and content identifier of that adapter result and the requested
\* provider.
C23_VariantsAgree ==
    \A c \in Calls :
        Returned(c) =>
            /\ provider[c] = "pinata" =>
                  /\ outcome[c].success = (pin[c] = "ok")
                  /\ outcome[c].cid = IF pin[c] = "ok" THEN PinataCid
                                                       ELSE NoCid
                  /\ outcome[c].provider = "pinata"
            /\ provider[c] = "lighthouse" /\ ~skipLighthouse[c]
                 /\ raceWinner[c] # "timeout" /\ lh[c] \in {"ok", "mocked"} =>
                  /\ outcome[c].success
                  /\ outcome[c].cid = IF lh[c] = "ok" THEN LighthouseCid
                                                      ELSE MockCid
                  /\ outcome[c].provider = "lighthouse"

\* the two calls of one variant returned, one through Pinata whose adapter
\* threw and one through a Lighthouse success
C23_Witness ==
    /\ variant = "fallback"
    /\ Returned(1) /\ provider[1] = "pinata" /\ pin[1] = "threw"
    /\ Returned(2) /\ provider[2] = "lighthouse" /\ lh[2] = "ok"
    /\ outcome[2].provider = "lighthouse"

\* C26: whenever updateAdminInfo returns success = false, that call has
\* modified neither the organization_admins row nor the metadata of the
\* authentication session.
C26_FailureWritesNothing ==
    (upd.pc = "done" /\ upd.result.status = "returned"
       /\ ~upd.result.success)
    => /\ ~upd.recordWritten
       /\ ~upd.sessionWritten

\* C27: getStorageProvider returns pinata or lighthouse, whatever string
\* the storage_provider column of the row holds.
C27_GetReturnsKnownProvider ==
    lastGet.status = "returned" => lastGet.value \in {"pinata", "lighthouse"}

\* C24: a submission of the ChangePassword form issues the backend password
\* update only when both fields are non-empty, the two fields are equal and
\* the password has at least 8 characters; every other submission makes no
\* backend call, sets an error message and leaves the success flag false.
C24_SubmitValidates ==
    cp.lastSubmit.run =>
        LET password == cp.lastSubmit.password
            confirmPassword == cp.lastSubmit.confirmPassword
            valid == /\ password # "" /\ confirmPassword # ""
                     /\ password = confirmPassword
                     /\ Len(password) >= 8
        IN  /\ cp.lastSubmit.issued <=> valid
            /\ ~valid => /\ cp.lastSubmit.error # "null"
                         /\ ~cp.lastSubmit.success
            /\ cp.inFlight + cp.succeeded <= cp.submits

\* two equal passwords of 7 characters were submitted and refused, after an
\* earlier submission that was sent to the backend
C24_Witness ==
    /\ cp.lastSubmit.run
    /\ cp.lastSubmit.password = "1234567"
    /\ cp.lastSubmit.confirmPassword = "1234567"
    /\ ~cp.lastSubmit.issued
    /\ cp.inFlight = 1 /\ cp.submits = 2

\* C25: for each successful password update the onSuccess callback is
\* invoked at most once, however the 3 second timer and the presses of
\* Continue on the success view interleave.
C25_OnSuccessOncePerUpdate ==
    cp.onSuccessCalls <= cp.succeeded

\* the call of fetchAdminInfo that the latest run of the effect started
LatestEffect ==
    CHOOSE i \in Effects :
        /\ fetches[i].pc # "idle"
        /\ \A j \in Effects : fetches[j].pc # "idle" => j <= i

\* C28: when the active address changed while an earlier fetchAdminInfo was
\* in flight, then once every fetch has settled the displayed name, email,
\* subscription plan and admin flag are those fetched for the current
\* address; a late response for an earlier address does not overwrite them.
C28_LateResponseIgnored ==
    (/\ activeAddress # ""
     /\ \E i \in Effects : fetches[i].pc # "idle"
     /\ \A i \in Effects : fetches[i].pc \in {"idle", "done"}
     /\ ~us.saving /\ ~us.lastSave.run)
    => /\ fetches[LatestEffect].key = activeAddress
       /\ us.userName = fetches[LatestEffect].result.fullName
       /\ us.userEmail = fetches[LatestEffect].result.email
       /\ us.subscriptionPlan = fetches[LatestEffect].result.subscriptionPlan
       /\ us.isAdmin = fetches[LatestEffect].result.isAdmin

\* C29: after handleSaveProfile completed with a successful updateAdminInfo
\* result, the displayed name and email are the ones the backend holds for
\* the account: those of the admin record for an admin, those of the
\* session for other accounts.
C29_SavedProfilePersisted ==
    (us.lastSave.run /\ us.lastSave.success)
    => /\ us.lastSave.userName = us.lastSave.persistedName
       /\ us.lastSave.userEmail = us.lastSave.persistedEmail

\* no handler of StorageProviderTest is between its call and its return
NoHandlerInFlight ==
    /\ spt.load.pc \in {"idle", "done"}
    /\ spt.up.pc = "idle"
    /\ spt.ch.pc = "idle"

\* C30: whenever no handler of StorageProviderTest is in flight, the
\* displayed currentProvider is the value getStorageProvider returns for the
\* active address, however handleUpload and handleProviderChange interleave.
\* Stated for a wallet that has a row and for lookups that hit no error.
C30_DisplayedProviderIsStored ==
    (/\ NoHandlerInFlight
     /\ activeAddress \in rows
     /\ ~spt.lookupFailed)
    => spt.currentProvider = IF storage_provider[activeAddress] = "null"
                             THEN "pinata"
                             ELSE storage_provider[activeAddress]
====
